---- MODULE Spec2Model ----
(***************************************************************************)
(* Model of the workflow-permissions tooling:                              *)
(*   src/check_formatting.py                 analyze_yaml_formatting,      *)
(*                                           verify_root_permissions       *)
(*   src/verify_all_workflow_permissions.py  WorkflowPermissionsVerifier,  *)
(*                                           main                          *)
(*                                                                         *)
(* Python indices are kept 0-based (with -1 as the "not found" value, as   *)
(* in the source); Line(ls, i) reads lines[i].                             *)
(***************************************************************************)
EXTENDS Integers, Sequences, FiniteSets, TLC

VARIABLES
    \* ---- check_formatting.py: one call on one source text
    lines,               \* f.readlines() of the file under analysis
    lines_readable,      \* FALSE: open()/readlines() raises
    verdict,             \* what analyze_yaml_formatting reported
    strict,              \* what verify_root_permissions returned
    \* ---- WorkflowPermissionsVerifier methods on one file
    file,                \* the workflow file a method is applied to
    gen_out,             \* return value of is_auto_generated_file
    root_out,            \* return value of check_root_permissions
    verify_out,          \* return value of verify_workflow_file
    \* ---- one run of main()
    workflow_files,      \* find_workflow_files(directory), in sorted order
    dir_exists,          \* os.path.exists(args.directory)
    suppress_output,     \* hasattr(verifier, '_suppress_output')  (--quiet)
    pc,                  \* position of the run
    idx,                 \* 0-based index of the file the loop is at
    result,              \* the result dict under construction
    results,             \* verify_all_workflows' results list
    total_files,
    files_with_errors,
    files_with_warnings,
    files_passed,
    exit_status,         \* -1 while running, else the process exit status
    interrupted,         \* history: a KeyboardInterrupt was delivered
    raised               \* history: an exception escaped verify_all_workflows

fmt_vars == <<lines, lines_readable, verdict, strict>>
file_vars == <<file, gen_out, root_out, verify_out>>
run_vars == <<workflow_files, dir_exists, suppress_output, pc, idx, result,
              results, total_files, files_with_errors, files_with_warnings,
              files_passed, exit_status, interrupted, raised>>
vars == <<fmt_vars, file_vars, run_vars>>

-----------------------------------------------------------------------------
(* Bounds of the model.                                                    *)

MaxLines == 4        \* longest source text given to analyze_yaml_formatting
MaxPermLines == 4    \* longest source text given to verify_root_permissions

-----------------------------------------------------------------------------
(* Source text.  A line is its leading spaces and its trimmed content, so  *)
(* that line.strip() and line.startswith(' ') are computed, not assumed.   *)
(* A line with text "" is blank: "\n" when indent = 0, whitespace-only     *)
(* otherwise.                                                              *)

Indents == 0..2

MkLine(n, t) == [indent |-> n, text |-> t]

strip(line) == line.text

startswith_space(line) == line.indent >= 1

startswith_two_spaces(line) == line.indent >= 2

Line(ls, i) == ls[i + 1]

\* lines[i] with Python's negative indexing (lines[-1] is the last line).
PyLine(ls, i) == IF i >= 0 THEN ls[i + 1] ELSE ls[Len(ls) + i + 1]

\* Trimmed contents that start with 'on: ' (strip() leaves a value after it).
OnInlineTexts == {"on: push"}

startswith_on_space(stripped) == stripped \in OnInlineTexts

\* Trimmed contents that start with 'permissions:'.
PermissionsTexts == {"permissions:", "permissions: read-all", "permissions: write-all"}

startswith_permissions(stripped) == stripped \in PermissionsTexts

RECURSIVE SeqsUpTo(_, _)
SeqsUpTo(S, n) ==
    IF n = 0 THEN {<<>>}
    ELSE LET shorter == SeqsUpTo(S, n - 1)
         IN shorter \cup {Append(s, x) : s \in {t \in shorter : Len(t) = n - 1}, x \in S}

-----------------------------------------------------------------------------
(* check_formatting.py: analyze_yaml_formatting                            *)

ScanInit == [on_block_end |-> -1, in_on_block |-> FALSE,
             next_block_line |-> -1, on_line |-> -1]

\* The inner loop of the single-line form: the next root-level line after i.
RECURSIVE FindNextBlock(_, _)
FindNextBlock(ls, j) ==
    IF j >= Len(ls) THEN -1
    ELSE IF strip(Line(ls, j)) # "" /\ ~startswith_space(Line(ls, j)) THEN j
    ELSE FindNextBlock(ls, j + 1)

\* The body of `for i, line in enumerate(lines)`, from index i on.
RECURSIVE ScanLines(_, _, _)
ScanLines(ls, i, s) ==
    IF i >= Len(ls) THEN s
    ELSE
      LET line == Line(ls, i)
          stripped == strip(line)
      IN
      IF (stripped = "on:" \/ startswith_on_space(stripped)) /\ ~startswith_space(line)
      THEN IF stripped = "on:"
           THEN ScanLines(ls, i + 1, [s EXCEPT !.on_line = i, !.in_on_block = TRUE])
           ELSE [s EXCEPT !.on_line = i, !.on_block_end = i,
                          !.next_block_line = FindNextBlock(ls, i + 1)]
      ELSE IF s.in_on_block
           THEN IF stripped # "" /\ startswith_space(line)
                THEN ScanLines(ls, i + 1, [s EXCEPT !.on_block_end = i])
                ELSE IF stripped # "" /\ ~startswith_space(line)
                     THEN [s EXCEPT !.next_block_line = i]
                     ELSE ScanLines(ls, i + 1, s)
           ELSE ScanLines(ls, i + 1, s)

NotRun == [status |-> "not_run", on_block_end |-> -1, next_block_line |-> -1,
           named |-> MkLine(0, ""), has_blank_line |-> FALSE, rule |-> "none"]

analyze_yaml_formatting(readable, ls) ==
    IF ~readable
    THEN [NotRun EXCEPT !.status = "read_error"]
    ELSE
      LET s == ScanLines(ls, 0, ScanInit) IN
      IF s.on_block_end = -1
      THEN [NotRun EXCEPT !.status = "structure_not_found"]
      ELSE
        LET has_blank == /\ s.on_block_end + 1 < Len(ls)
                         /\ strip(Line(ls, s.on_block_end + 1)) = ""
        IN [status |-> "verdict",
            on_block_end |-> s.on_block_end,
            next_block_line |-> s.next_block_line,
            named |-> PyLine(ls, s.next_block_line),
            has_blank_line |-> has_blank,
            rule |-> IF has_blank THEN "B" ELSE "A"]

-----------------------------------------------------------------------------
(* check_formatting.py: verify_root_permissions                            *)

RECURSIVE FindPermissionsLine(_, _)
FindPermissionsLine(ls, i) ==
    IF i >= Len(ls) THEN -1
    ELSE IF startswith_permissions(strip(Line(ls, i))) /\ ~startswith_space(Line(ls, i))
         THEN i
         ELSE FindPermissionsLine(ls, i + 1)

verify_root_permissions(readable, ls) ==
    IF ~readable THEN FALSE
    ELSE
      LET permissions_line == FindPermissionsLine(ls, 0) IN
      IF permissions_line = -1 THEN FALSE
      ELSE
        LET perm_line == strip(Line(ls, permissions_line)) IN
        IF perm_line = "permissions: read-all" THEN TRUE
        ELSE IF perm_line = "permissions:"
        THEN IF permissions_line + 1 >= Len(ls) THEN FALSE
             ELSE
               LET contents_line == Line(ls, permissions_line + 1)
                   next_line_idx == permissions_line + 2
               IN
               IF strip(contents_line) = "contents: read"
                     /\ startswith_two_spaces(contents_line)
               THEN IF /\ next_line_idx < Len(ls)
                       /\ strip(Line(ls, next_line_idx)) # ""
                       /\ startswith_two_spaces(Line(ls, next_line_idx))
                    THEN FALSE
                    ELSE TRUE
               ELSE FALSE
        ELSE FALSE

NotCalled == [returned |-> FALSE, value |-> FALSE]

Returned(v) == [returned |-> TRUE, value |-> v]

-----------------------------------------------------------------------------
(* verify_all_workflow_permissions.py: the data                            *)
(*                                                                         *)
(* A parsed YAML value under the root 'permissions' key: its Python type,  *)
(* the string when it is a str, the (key, value) items in document order   *)
(* when it is a dict.                                                      *)

PNone == [type |-> "NoneType", str |-> "", items |-> <<>>]

PStr(s) == [type |-> "str", str |-> s, items |-> <<>>]

PDict(items) == [type |-> "dict", str |-> "", items |-> items]

POther(t) == [type |-> t, str |-> "", items |-> <<>>]

ScopeNames == {"contents", "issues"}

AccessLevels == {"read", "write"}

\* Every dict over ScopeNames (keys of a dict are distinct), in both orders.
PermissionDicts ==
    {PDict(its) : its \in {s \in SeqsUpTo(ScopeNames \X AccessLevels, Cardinality(ScopeNames)) :
                              \A i, j \in 1..Len(s) : i # j => s[i][1] # s[j][1]}}

PermissionStrings == {PStr("read-all"), PStr("write-all"), PStr("read"), PStr("")}

PermissionValues ==
    {PNone} \cup PermissionStrings \cup PermissionDicts
        \cup {POther("list"), POther("int"), POther("bool")}

\* A diagnostic string: its fixed text and the value formatted into it.
Msg(text, arg) == [text |-> text, arg |-> arg]

\* jobs: the value under the root 'jobs' key.  A job name is a YAML key: a
\* str, or another scalar such as the int of the plain key `1`.
JobName(t, r) == [type |-> t, repr |-> r]

Job(name, is_dict, has_permissions, has_uses, has_steps) ==
    [name |-> name, is_dict |-> is_dict, has_permissions |-> has_permissions,
     permissions |-> IF has_permissions THEN PStr("write-all") ELSE PNone,
     has_uses |-> has_uses, has_steps |-> has_steps]

NoJobs == [present |-> FALSE, is_dict |-> FALSE, entries |-> <<>>]

JobsDict(entries) == [present |-> TRUE, is_dict |-> TRUE, entries |-> entries]

JobsNotDict == [present |-> TRUE, is_dict |-> FALSE, entries |-> <<>>]

\* The root mapping of a workflow.
Workflow(has_permissions, permissions, jobs) ==
    [has_permissions |-> has_permissions, permissions |-> permissions, jobs |-> jobs]

EmptyWorkflow == Workflow(FALSE, PNone, NoJobs)

\* A file on disk: whether open()/read succeeds, its lines (trimmed text of
\* each), and what yaml.safe_load makes of it (PyYAML is external: the parse
\* is an input, not computed from the lines).
File(readable, text, yaml_ok, root_is_dict, data) ==
    [readable |-> readable, text |-> text, yaml_ok |-> yaml_ok,
     root_is_dict |-> root_is_dict, data |-> data]

-----------------------------------------------------------------------------
(* is_auto_generated_file                                                  *)

FirstLines == 10

auto_gen_indicators ==
    {"autogenerated", "auto-generated", "automatically generated", "cargo-dist",
     "DO NOT EDIT"}

\* The lines a file's text is drawn from.
PlainText == "name: CI"

MarkedTexts == {"# autogenerated", "# Auto-Generated by tool", "# DO NOT EDIT",
                "# do not edit", "# built by Cargo-Dist"}

\* str.lower() on the strings of the model.
lower(s) ==
    CASE s = "name: CI" -> "name: ci"
      [] s = "# Auto-Generated by tool" -> "# auto-generated by tool"
      [] s = "# DO NOT EDIT" -> "# do not edit"
      [] s = "# built by Cargo-Dist" -> "# built by cargo-dist"
      [] s = "DO NOT EDIT" -> "do not edit"
      [] OTHER -> s

\* `needle in hay` (case-sensitive substring) on the strings of the model.
SubstringFacts ==
    {<<"autogenerated", "# autogenerated">>,
     <<"auto-generated", "# auto-generated by tool">>,
     <<"DO NOT EDIT", "# DO NOT EDIT">>,
     <<"do not edit", "# do not edit">>,
     <<"cargo-dist", "# built by cargo-dist">>}

contains(needle, hay) == <<needle, hay>> \in SubstringFacts

\* Mutant of first_lines: f.readlines() without the [:10] slice.
first_lines_Unsliced(text) == text

\* f.readlines()[:10]
first_lines(text) == SubSeq(text, 1, IF Len(text) < FirstLines THEN Len(text) ELSE FirstLines)

\* No indicator holds a newline, so an indicator occurs in ''.join(lines)
\* exactly when it occurs in one of the lines.  `intr`: an exception (such
\* as KeyboardInterrupt) is raised inside the try block; the bare `except:`
\* turns it, like a read failure, into False.
is_auto_generated_file(f, intr) ==
    IF ~f.readable \/ intr THEN FALSE
    ELSE \E indicator \in auto_gen_indicators :
            \E k \in 1..Len(first_lines(f.text)) :
                contains(lower(indicator), lower(first_lines(f.text)[k]))

-----------------------------------------------------------------------------
(* load_yaml_file, check_root_permissions, analyze_job_permissions,        *)
(* verify_workflow_file                                                    *)

\* (content, error): content is meaningful when error.text = "".
load_yaml_file(f) ==
    IF ~f.readable THEN [content_ok |-> FALSE, error |-> Msg("File reading error:", PNone)]
    ELSE IF ~f.yaml_ok THEN [content_ok |-> FALSE, error |-> Msg("YAML parsing error:", PNone)]
    ELSE [content_ok |-> TRUE, error |-> Msg("", PNone)]

Verdict(is_valid, errors, warnings) ==
    [is_valid |-> is_valid, errors |-> errors, warnings |-> warnings]

\* permissions.get('contents')
DictGet(items, key) ==
    IF \E i \in 1..Len(items) : items[i][1] = key
    THEN items[CHOOSE i \in 1..Len(items) : items[i][1] = key][2]
    ELSE "None"

\* Mutant of check_string_permissions: 'write-all' accepted like 'read-all',
\* without the warning.
check_string_permissions_Silent(permissions) ==
    IF permissions.str \in {"read-all", "write-all"} THEN Verdict(TRUE, <<>>, <<>>)
    ELSE Verdict(FALSE, <<Msg("Invalid root-level permissions string:", permissions)>>, <<>>)

\* Lines 86-95: the value is a str.
check_string_permissions(permissions) ==
    IF permissions.str = "read-all" THEN Verdict(TRUE, <<>>, <<>>)
    ELSE IF permissions.str = "write-all"
    THEN Verdict(TRUE, <<>>,
                 <<Msg("Root-level 'write-all' permission is overly permissive", PNone)>>)
    ELSE Verdict(FALSE, <<Msg("Invalid root-level permissions string:", permissions)>>, <<>>)

\* Mutant of check_dict_permissions: the len(permissions) == 0 branch is
\* missing, so an empty mapping falls through to the final `return True`.
check_dict_permissions_NoEmptyBranch(permissions, f, intr) ==
    LET perm_items == permissions.items IN
    IF Len(perm_items) = 1 /\ DictGet(perm_items, "contents") = "read"
    THEN Verdict(TRUE, <<>>, <<>>)
    ELSE IF Len(perm_items) > 1
              \/ (Len(perm_items) = 1 /\ perm_items[1] # <<"contents", "read">>)
    THEN IF is_auto_generated_file(f, intr)
         THEN Verdict(TRUE, <<>>,
                 <<Msg("Auto-generated file with root-level permissions:", permissions),
                   Msg("Consider configuring the generation tool for minimal permissions if possible", PNone)>>)
         ELSE Verdict(TRUE, <<>>,
                 <<Msg("Root-level permissions should be limited to 'contents: read' or 'read-all'. Found:", permissions),
                   Msg("Consider moving specific permissions to job level if needed", PNone)>>)
    ELSE Verdict(TRUE, <<>>, <<>>)

\* Mutant of check_dict_permissions: a broad mapping in a hand-written file
\* is rejected (an error) instead of flagged (a warning).
check_dict_permissions_RejectsBroad(permissions, f, intr) ==
    LET perm_items == permissions.items IN
    IF Len(perm_items) = 1 /\ DictGet(perm_items, "contents") = "read"
    THEN Verdict(TRUE, <<>>, <<>>)
    ELSE IF Len(perm_items) = 0
    THEN Verdict(FALSE, <<Msg("Root-level permissions block is empty", PNone)>>, <<>>)
    ELSE IF is_auto_generated_file(f, intr)
         THEN Verdict(TRUE, <<>>,
                 <<Msg("Auto-generated file with root-level permissions:", permissions),
                   Msg("Consider configuring the generation tool for minimal permissions if possible", PNone)>>)
         ELSE Verdict(FALSE,
                 <<Msg("Root-level permissions should be limited to 'contents: read' or 'read-all'. Found:", permissions)>>,
                 <<>>)

\* Lines 97-118: the value is a dict.
check_dict_permissions(permissions, f, intr) ==
    LET perm_items == permissions.items IN
    IF Len(perm_items) = 1 /\ DictGet(perm_items, "contents") = "read"
    THEN Verdict(TRUE, <<>>, <<>>)
    ELSE IF Len(perm_items) = 0
    THEN Verdict(FALSE, <<Msg("Root-level permissions block is empty", PNone)>>, <<>>)
    ELSE IF Len(perm_items) > 1
              \/ (Len(perm_items) = 1 /\ perm_items[1] # <<"contents", "read">>)
    THEN IF is_auto_generated_file(f, intr)
         THEN Verdict(TRUE, <<>>,
                 <<Msg("Auto-generated file with root-level permissions:", permissions),
                   Msg("Consider configuring the generation tool for minimal permissions if possible", PNone)>>)
         ELSE Verdict(TRUE, <<>>,
                 <<Msg("Root-level permissions should be limited to 'contents: read' or 'read-all'. Found:", permissions),
                   Msg("Consider moving specific permissions to job level if needed", PNone)>>)
    ELSE Verdict(TRUE, <<>>, <<>>)

check_root_permissions(workflow_data, f, intr) ==
    IF ~workflow_data.has_permissions
    THEN Verdict(FALSE, <<Msg("Missing root-level 'permissions' block", PNone)>>, <<>>)
    ELSE
      LET permissions == workflow_data.permissions IN
      IF permissions.type = "NoneType"
      THEN Verdict(FALSE, <<Msg("Root-level 'permissions' block is empty", PNone)>>, <<>>)
      ELSE IF permissions.type = "str" THEN check_string_permissions(permissions)
      ELSE IF permissions.type = "dict" THEN check_dict_permissions(permissions, f, intr)
      ELSE Verdict(FALSE,
                   <<Msg("Invalid root-level permissions format:", PStr(permissions.type))>>, <<>>)

\* The analysis of one job; jobs whose value is no dict are skipped.
JobAnalysis(job) ==
    [name |-> job.name,
     has_permissions |-> job.has_permissions,
     permissions |-> job.permissions,
     is_reusable_workflow |-> job.has_uses /\ ~job.has_steps,
     has_steps |-> job.has_steps]

RECURSIVE AnalyzeEntries(_)
AnalyzeEntries(entries) ==
    IF entries = <<>> THEN <<>>
    ELSE IF ~Head(entries).is_dict THEN AnalyzeEntries(Tail(entries))
    ELSE <<JobAnalysis(Head(entries))>> \o AnalyzeEntries(Tail(entries))

\* job_analysis, as the (name, analysis) items of the dict in insertion order.
analyze_job_permissions(workflow_data) ==
    IF ~workflow_data.jobs.present THEN <<>>
    ELSE IF ~workflow_data.jobs.is_dict THEN <<>>
    ELSE AnalyzeEntries(workflow_data.jobs.entries)

\* Mutant of NewResult: the result starts as valid, so a file that fails to
\* load keeps is_valid true beside its error message.
NewResult_ValidByDefault(file_path) ==
    [file_path |-> file_path, is_valid |-> TRUE, errors |-> <<>>, warnings |-> <<>>,
     job_analysis |-> <<>>, is_auto_generated |-> FALSE]

NewResult(file_path) ==
    [file_path |-> file_path, is_valid |-> FALSE, errors |-> <<>>, warnings |-> <<>>,
     job_analysis |-> <<>>, is_auto_generated |-> FALSE]

\* Lines 193-212, on a result whose is_auto_generated is already set.
\* `intr`: see is_auto_generated_file (the call inside check_root_permissions).
LoadAndCheck(res, f, intr) ==
    LET loaded == load_yaml_file(f) IN
    IF loaded.error.text # ""
    THEN [res EXCEPT !.errors = Append(@, loaded.error)]
    ELSE IF ~f.root_is_dict
    THEN [res EXCEPT !.errors =
              Append(@, Msg("Workflow file is not a valid YAML dictionary", PNone))]
    ELSE LET v == check_root_permissions(f.data, f, intr) IN
         [res EXCEPT !.is_valid = v.is_valid,
                     !.errors = @ \o v.errors,
                     !.warnings = @ \o v.warnings,
                     !.job_analysis = analyze_job_permissions(f.data)]

verify_workflow_file(f, file_path) ==
    LoadAndCheck([NewResult(file_path) EXCEPT
                     !.is_auto_generated = is_auto_generated_file(f, FALSE)],
                 f, FALSE)

-----------------------------------------------------------------------------
(* Inputs.                                                                 *)

\* Source texts for analyze_yaml_formatting: trigger lines in both forms,
\* other keys and blank lines, each at the root and indented.
FormatLines == {MkLine(n, t) : n \in {0, 2}, t \in {"", "on:", "on: push", "key:"}}

\* Source texts for verify_root_permissions.
PermLines ==
    {MkLine(n, t) : n \in {0, 2},
                    t \in {"", "permissions:", "permissions: read-all",
                           "contents: read", "issues: write"}}
        \cup {MkLine(0, "permissions: write-all"), MkLine(1, "contents: read")}

PlainHead == <<PlainText, PlainText>>

GenHead == <<"# DO NOT EDIT", PlainText>>

\* A text of n lines whose k-th line is t and whose other lines are plain.
TextWith(n, k, t) == [i \in 1..n |-> IF i = k THEN t ELSE PlainText]

IdleFmt ==
    /\ lines = <<>>
    /\ lines_readable = TRUE
    /\ verdict = NotRun
    /\ strict = NotCalled

IdleFile ==
    /\ file = File(TRUE, <<>>, TRUE, TRUE, EmptyWorkflow)
    /\ gen_out = NotCalled
    /\ root_out = [returned |-> FALSE, value |-> Verdict(FALSE, <<>>, <<>>)]
    /\ verify_out = [returned |-> FALSE, value |-> NewResult(0)]

IdleRun ==
    /\ workflow_files = <<>>
    /\ dir_exists = TRUE
    /\ suppress_output = FALSE
    /\ pc = "idle"
    /\ idx = 0
    /\ result = NewResult(0)
    /\ results = <<>>
    /\ total_files = 0
    /\ files_with_errors = 0
    /\ files_with_warnings = 0
    /\ files_passed = 0
    /\ exit_status = -1
    /\ interrupted = FALSE
    /\ raised = FALSE

-----------------------------------------------------------------------------
(* SpecFormat: analyze_yaml_formatting applied to a source text.           *)

InitFormat ==
    /\ \/ lines_readable = TRUE /\ lines \in SeqsUpTo(FormatLines, MaxLines)
       \/ lines_readable = FALSE /\ lines = <<>>
    /\ verdict = NotRun
    /\ strict = NotCalled
    /\ IdleFile
    /\ IdleRun

AnalyzeYamlFormatting ==
    /\ verdict' = analyze_yaml_formatting(lines_readable, lines)
    /\ UNCHANGED <<lines, lines_readable, strict, file_vars, run_vars>>

NextFormat == AnalyzeYamlFormatting

SpecFormat == InitFormat /\ [][NextFormat]_vars

(* SpecStrict: verify_root_permissions applied to a source text.           *)

InitStrict ==
    /\ \/ lines_readable = TRUE /\ lines \in SeqsUpTo(PermLines, MaxPermLines)
       \/ lines_readable = FALSE /\ lines = <<>>
    /\ verdict = NotRun
    /\ strict = NotCalled
    /\ IdleFile
    /\ IdleRun

VerifyRootPermissions ==
    /\ strict' = Returned(verify_root_permissions(lines_readable, lines))
    /\ UNCHANGED <<lines, lines_readable, verdict, file_vars, run_vars>>

NextStrict == VerifyRootPermissions

SpecStrict == InitStrict /\ [][NextStrict]_vars

-----------------------------------------------------------------------------
(* The formatting analyzer and the literal-text check against their        *)
(* description.  The description's notions, stated on the source text:     *)

IsRootLevel(line) == strip(line) # "" /\ ~startswith_space(line)

IsTriggerLine(line) ==
    IsRootLevel(line) /\ (strip(line) = "on:" \/ startswith_on_space(strip(line)))

\* Smallest index in from..Len(ls)-1 whose line satisfies P, or -1.
FirstIndex(ls, from, P(_)) ==
    IF \E i \in from..(Len(ls) - 1) : P(Line(ls, i))
    THEN CHOOSE i \in from..(Len(ls) - 1) :
            P(Line(ls, i)) /\ \A j \in from..(i - 1) : ~P(Line(ls, j))
    ELSE -1

\* The trigger block starts at the first root-level trigger line.
TriggerIndex(ls) == FirstIndex(ls, 0, IsTriggerLine)

\* The boundary: the first root-level line strictly after the trigger line.
BoundaryIndex(ls) ==
    IF TriggerIndex(ls) = -1 THEN -1 ELSE FirstIndex(ls, TriggerIndex(ls) + 1, IsRootLevel)

IsContentLine(line) == strip(line) # "" /\ startswith_space(line)

\* Indented content lines of a multi-line trigger block with a boundary.
BlockContent(ls) ==
    {k \in (TriggerIndex(ls) + 1)..(BoundaryIndex(ls) - 1) : IsContentLine(Line(ls, k))}

IsMultiLineBlock(ls) ==
    /\ TriggerIndex(ls) # -1
    /\ strip(Line(ls, TriggerIndex(ls))) = "on:"
    /\ BoundaryIndex(ls) # -1
    /\ BlockContent(ls) # {}

LastContent(ls) == CHOOSE k \in BlockContent(ls) : \A m \in BlockContent(ls) : m <= k

Analyzed == verdict.status \in {"structure_not_found", "verdict"}

\* C6: the analyzer reports "structure not found" exactly when the text has
\* no root-level trigger line or no root-level line after the trigger line,
\* and otherwise gives a verdict that names the boundary line.
C6_StructureNotFoundExactly ==
    Analyzed =>
        /\ (verdict.status = "structure_not_found")
               <=> (TriggerIndex(lines) = -1 \/ BoundaryIndex(lines) = -1)
        /\ (TriggerIndex(lines) # -1 /\ BoundaryIndex(lines) # -1)
               => /\ verdict.status = "verdict"
                  /\ verdict.next_block_line = BoundaryIndex(lines)

\* C7: for a multi-line trigger block with indented content and a later
\* root-level line, the block's end is the last indented content line of
\* the block and the verdict is rule B exactly when the line right after
\* that end is blank, rule A otherwise.
C7_MultiLineVerdict ==
    (Analyzed /\ IsMultiLineBlock(lines)) =>
        /\ verdict.status = "verdict"
        /\ verdict.on_block_end = LastContent(lines)
        /\ (verdict.rule = "B") <=> (strip(Line(lines, LastContent(lines) + 1)) = "")
        /\ (verdict.rule = "A") <=> (strip(Line(lines, LastContent(lines) + 1)) # "")

\* The same statement on the texts whose boundary line is not itself a
\* trigger line (no second root-level 'on' line ends the block).
C7_WithoutSecondTrigger ==
    (Analyzed /\ IsMultiLineBlock(lines)
              /\ ~IsTriggerLine(Line(lines, BoundaryIndex(lines)))) =>
        /\ verdict.status = "verdict"
        /\ verdict.on_block_end = LastContent(lines)
        /\ (verdict.rule = "B") <=> (strip(Line(lines, LastContent(lines) + 1)) = "")

IsNonBlank(line) == strip(line) # ""

\* C8: the literal-text check passes only for 'permissions: read-all', or
\* for 'permissions:' directly followed by '  contents: read' with no
\* further non-blank indented line after it, blank lines in between or not.
C8_StrictPassesOnlyMinimal ==
    (strict.returned /\ strict.value) =>
        LET p == FirstIndex(lines, 0, LAMBDA l : startswith_permissions(strip(l))
                                                    /\ ~startswith_space(l))
        IN /\ p # -1
           /\ \/ strip(Line(lines, p)) = "permissions: read-all"
              \/ /\ strip(Line(lines, p)) = "permissions:"
                 /\ p + 1 < Len(lines)
                 /\ Line(lines, p + 1) = MkLine(2, "contents: read")
                 /\ LET nb == FirstIndex(lines, p + 2, IsNonBlank)
                    IN nb # -1 => ~startswith_two_spaces(Line(lines, nb))

-----------------------------------------------------------------------------
(* SpecFile: the verifier's per-file methods applied to one file.          *)

MaxTextLines == 12   \* longest file text given to is_auto_generated_file

\* Texts with at most one marked line, at every position.
HeuristicTexts ==
    {TextWith(n, k, t) : n \in 0..MaxTextLines, k \in 0..MaxTextLines,
                         t \in MarkedTexts}

\* Files for is_auto_generated_file: readable or not, any such text.
HeuristicFiles ==
    {File(r, text, TRUE, TRUE, EmptyWorkflow) : r \in BOOLEAN, text \in HeuristicTexts}

\* Files for check_root_permissions: every permission declaration, in
\* files that match the heuristic, do not match it, or cannot be read again.
RootFiles ==
    {File(r, text, TRUE, TRUE, Workflow(hp, pv, NoJobs)) :
        r \in BOOLEAN, text \in {PlainHead, GenHead}, hp \in BOOLEAN,
        pv \in PermissionValues}

InitFile ==
    /\ file \in HeuristicFiles \cup RootFiles
    /\ gen_out = NotCalled
    /\ root_out = [returned |-> FALSE, value |-> Verdict(FALSE, <<>>, <<>>)]
    /\ verify_out = [returned |-> FALSE, value |-> NewResult(0)]
    /\ IdleFmt
    /\ IdleRun

CallIsAutoGenerated ==
    /\ gen_out' = Returned(is_auto_generated_file(file, FALSE))
    /\ UNCHANGED <<file, root_out, verify_out, fmt_vars, run_vars>>

\* Also enabled when root_out is set: the same document classified again.
CallCheckRootPermissions ==
    /\ root_out' = Returned(check_root_permissions(file.data, file, FALSE))
    /\ UNCHANGED <<file, gen_out, verify_out, fmt_vars, run_vars>>

NextFile == CallIsAutoGenerated \/ CallCheckRootPermissions

SpecFile == InitFile /\ [][NextFile]_vars

-----------------------------------------------------------------------------
(* The per-file methods against their description.                         *)

Declared == file.data.has_permissions

Declaration == file.data.permissions

IsMinimalMapping(pv) == pv.type = "dict" /\ pv.items = <<<<"contents", "read">>>>

IsBroadMapping(pv) == pv.type = "dict" /\ Len(pv.items) >= 1 /\ ~IsMinimalMapping(pv)

\* The declarations the description classifies as errors.
IsRejected ==
    \/ ~Declared
    \/ Declaration.type = "NoneType"
    \/ Declaration.type = "dict" /\ Declaration.items = <<>>
    \/ Declaration.type = "str" /\ Declaration.str \notin {"read-all", "write-all"}
    \/ Declaration.type \in {"list", "int", "bool"}

\* C3: an absent, null, empty, unrecognised-string or wrongly shaped root
\* permission gives is_valid false with exactly one error and no warning; a
\* non-empty mapping never gives an error.
C3_RejectedDeclarations ==
    root_out.returned =>
        /\ IsRejected =>
              /\ ~root_out.value.is_valid
              /\ Len(root_out.value.errors) = 1
              /\ root_out.value.warnings = <<>>
        /\ (Declared /\ Declaration.type = "dict" /\ Declaration.items # <<>>) =>
              /\ root_out.value.is_valid
              /\ root_out.value.errors = <<>>

C3_Witness ==
    /\ root_out.returned
    /\ Declared
    /\ Declaration.type = "dict"
    /\ Declaration.items = <<>>
    /\ ~root_out.value.is_valid

\* C4: 'read-all' and the mapping {contents: read} are valid with no error
\* and no warning, 'write-all' is valid with no error and exactly one
\* warning, whether or not the file matches the generated-file heuristic.
C4_AcceptedDeclarations ==
    (root_out.returned /\ Declared) =>
        /\ (Declaration = PStr("read-all") \/ IsMinimalMapping(Declaration)) =>
              root_out.value = Verdict(TRUE, <<>>, <<>>)
        /\ Declaration = PStr("write-all") =>
              /\ root_out.value.is_valid
              /\ root_out.value.errors = <<>>
              /\ Len(root_out.value.warnings) = 1

C4_Witness ==
    /\ root_out.returned
    /\ Declared
    /\ Declaration = PStr("write-all")
    /\ file.readable
    /\ file.text = GenHead
    /\ Len(root_out.value.warnings) = 1

\* The same file with the other head: generated for plain, plain for generated.
Counterpart(f) == [f EXCEPT !.text = IF @ = GenHead THEN PlainHead ELSE GenHead]

\* C5: a mapping with two or more entries, or with one entry other than
\* contents: read, is valid with no error and with a warning; the file
\* matching the generated-file heuristic changes the warning text only, and
\* classifying the document again leaves the result as it is.
C5_BroadMappingState ==
    (root_out.returned /\ Declared /\ IsBroadMapping(Declaration)) =>
        LET other == check_root_permissions(file.data, Counterpart(file), FALSE) IN
        /\ root_out.value.is_valid
        /\ root_out.value.errors = <<>>
        /\ root_out.value.warnings # <<>>
        /\ other.is_valid = root_out.value.is_valid
        /\ other.errors = root_out.value.errors
        /\ other.warnings # <<>>
        /\ file.readable => other.warnings # root_out.value.warnings

\* C5, with the re-classification: the state property in every state, and
\* no step changes a result once check_root_permissions has returned it.
C5_BroadMapping ==
    /\ []C5_BroadMappingState
    /\ [][root_out.returned => root_out' = root_out]_vars

C5_Witness ==
    /\ root_out.returned
    /\ Declared
    /\ Len(Declaration.items) = 1
    /\ IsBroadMapping(Declaration)
    /\ file.readable
    /\ file.text = GenHead
    /\ root_out.value.is_valid

\* A marker occurs, in some letter case, on one of the first 10 lines.
MarkerInFirstTen(f) ==
    \E k \in 1..Len(f.text) : k <= 10 /\ f.text[k] \in MarkedTexts

\* C9: is_auto_generated_file is true exactly when a marker occurs, in any
\* letter case, within the first 10 lines; a marker on line 11 or later is
\* not detected, and a file that cannot be read gives false.
C9_FirstTenLines ==
    gen_out.returned =>
        /\ gen_out.value <=> (file.readable /\ MarkerInFirstTen(file))
        /\ ~file.readable => ~gen_out.value

C9_Witness ==
    /\ gen_out.returned
    /\ file.readable
    /\ Len(file.text) >= 11
    /\ file.text[11] = "# DO NOT EDIT"
    /\ ~gen_out.value

-----------------------------------------------------------------------------
(* Spec: one run of main() over a directory.                               *)

MaxFiles == 2        \* most workflow files found in the directory

ReadAllWorkflow(jobs) == Workflow(TRUE, PStr("read-all"), jobs)

BroadPermissions == PDict(<<<<"contents", "read">>, <<"issues", "write">>>>)

\* The kinds of file a directory holds: one per way a file is classified.
WorkflowFileKinds ==
    { File(FALSE, <<>>, FALSE, FALSE, EmptyWorkflow),            \* unreadable
      File(TRUE, PlainHead, FALSE, FALSE, EmptyWorkflow),        \* not YAML
      File(TRUE, PlainHead, TRUE, FALSE, EmptyWorkflow),         \* root is no mapping
      File(TRUE, PlainHead, TRUE, TRUE, EmptyWorkflow),          \* no permissions
      File(TRUE, PlainHead, TRUE, TRUE, ReadAllWorkflow(NoJobs)),
      File(TRUE, GenHead, TRUE, TRUE, Workflow(TRUE, PStr("write-all"), JobsNotDict)),
      File(TRUE, PlainHead, TRUE, TRUE,
           Workflow(TRUE, PDict(<<<<"contents", "read">>>>), NoJobs)),
      File(TRUE, PlainHead, TRUE, TRUE, Workflow(TRUE, BroadPermissions, NoJobs)),
      File(TRUE, GenHead, TRUE, TRUE, Workflow(TRUE, BroadPermissions, NoJobs)),
      File(TRUE, PlainHead, TRUE, TRUE,
           ReadAllWorkflow(JobsDict(<<Job(JobName("str", "build"), TRUE, TRUE, FALSE, TRUE),
                                      Job(JobName("str", "call"), TRUE, FALSE, TRUE, FALSE),
                                      Job(JobName("str", "odd"), FALSE, FALSE, FALSE, FALSE)>>))),
      File(TRUE, PlainHead, TRUE, TRUE,
           ReadAllWorkflow(JobsDict(<<Job(JobName("int", "1"), TRUE, TRUE, FALSE, TRUE)>>))) }

\* The file at the loop's position; its path is its rank in the sorted list.
CurrentFile == workflow_files[idx + 1]

CurrentPath == idx + 1

Init ==
    /\ dir_exists \in BOOLEAN
    /\ workflow_files \in SeqsUpTo(WorkflowFileKinds, MaxFiles)
    /\ ~dir_exists => workflow_files = <<>>
    /\ suppress_output \in BOOLEAN
    /\ pc = "main"
    /\ idx = 0
    /\ result = NewResult(0)
    /\ results = <<>>
    /\ total_files = 0
    /\ files_with_errors = 0
    /\ files_with_warnings = 0
    /\ files_passed = 0
    /\ exit_status = -1
    /\ interrupted = FALSE
    /\ raised = FALSE
    /\ IdleFmt
    /\ IdleFile

Exit(status) ==
    /\ pc' = "exited"
    /\ exit_status' = status

inputs == <<workflow_files, dir_exists, suppress_output>>

counters == <<total_files, files_with_errors, files_with_warnings, files_passed>>

\* main(), lines 329-344: the directory check, the verifier's construction.
MainStart ==
    /\ pc = "main"
    /\ IF ~dir_exists THEN Exit(1)
       ELSE pc' = "find" /\ UNCHANGED exit_status
    /\ UNCHANGED <<inputs, idx, result, results, counters, interrupted, raised,
                   fmt_vars, file_vars>>

\* verify_all_workflows, lines 261-267: no file found returns a summary,
\* main falls off its end and the process exits 0.
FindWorkflowFiles ==
    /\ pc = "find"
    /\ IF workflow_files = <<>> THEN Exit(0)
       ELSE pc' = "loop" /\ UNCHANGED exit_status
    /\ UNCHANGED <<inputs, idx, result, results, counters, interrupted, raised,
                   fmt_vars, file_vars>>

\* Mutant of LoopNext: the loop is left at the first file with an error.
LoopNext_StopsAtError ==
    /\ pc = "loop"
    /\ IF idx < Len(workflow_files) /\ files_with_errors = 0
       THEN /\ total_files' = total_files + 1
            /\ pc' = "verify"
       ELSE /\ pc' = "summary"
            /\ UNCHANGED total_files
    /\ UNCHANGED <<inputs, idx, result, results, files_with_errors,
                   files_with_warnings, files_passed, exit_status, interrupted,
                   raised, fmt_vars, file_vars>>

\* The head of `for file_path in workflow_files`, and line 271.
LoopNext ==
    /\ pc = "loop"
    /\ IF idx < Len(workflow_files)
       THEN /\ total_files' = total_files + 1
            /\ pc' = "verify"
       ELSE /\ pc' = "summary"
            /\ UNCHANGED total_files
    /\ UNCHANGED <<inputs, idx, result, results, files_with_errors,
                   files_with_warnings, files_passed, exit_status, interrupted,
                   raised, fmt_vars, file_vars>>

\* verify_workflow_file, lines 181-191.  intr: a KeyboardInterrupt arrives
\* inside is_auto_generated_file's try block, where the bare except
\* swallows it.
VerifyStart(intr) ==
    /\ pc = "verify"
    /\ result' = [NewResult(CurrentPath) EXCEPT
                     !.is_auto_generated = is_auto_generated_file(CurrentFile, intr)]
    /\ interrupted' = (interrupted \/ intr)
    /\ pc' = "load"
    /\ UNCHANGED <<inputs, idx, results, counters, exit_status, raised,
                   fmt_vars, file_vars>>

\* check_root_permissions reaches its call of is_auto_generated_file.
ReachesHeuristic(f) ==
    /\ load_yaml_file(f).error.text = ""
    /\ f.root_is_dict
    /\ f.data.has_permissions
    /\ f.data.permissions.type = "dict"
    /\ Len(f.data.permissions.items) > 0
    /\ ~(Len(f.data.permissions.items) = 1
            /\ DictGet(f.data.permissions.items, "contents") = "read")

\* verify_workflow_file, lines 193-212, and results.append (line 273).
VerifyFinish(intr) ==
    /\ pc = "load"
    /\ intr => ReachesHeuristic(CurrentFile)
    /\ result' = LoadAndCheck(result, CurrentFile, intr)
    /\ results' = Append(results, result')
    /\ interrupted' = (interrupted \/ intr)
    /\ pc' = "print"
    /\ UNCHANGED <<inputs, idx, counters, exit_status, raised, fmt_vars, file_vars>>

\* ', '.join(jobs_with_permissions) raises TypeError for a name that is no str.
JoinRaises(res) ==
    \E k \in 1..Len(res.job_analysis) :
        res.job_analysis[k].has_permissions /\ res.job_analysis[k].name.type # "str"

\* Mutant of UpdateStatistics: the warning test is not nested under the
\* validity test, so a valid file with warnings is counted twice.
UpdateStatistics_NotExclusive(res) ==
    /\ files_with_warnings' = files_with_warnings + (IF res.warnings # <<>> THEN 1 ELSE 0)
    /\ files_passed' = files_passed + (IF res.is_valid THEN 1 ELSE 0)
    /\ files_with_errors' = files_with_errors + (IF res.is_valid THEN 0 ELSE 1)

\* print_file_result, lines 219-226: one of the three counters.
UpdateStatistics(res) ==
    IF res.is_valid
    THEN IF res.warnings # <<>>
         THEN /\ files_with_warnings' = files_with_warnings + 1
              /\ UNCHANGED <<files_passed, files_with_errors>>
         ELSE /\ files_passed' = files_passed + 1
              /\ UNCHANGED <<files_with_warnings, files_with_errors>>
    ELSE /\ files_with_errors' = files_with_errors + 1
         /\ UNCHANGED <<files_passed, files_with_warnings>>

\* print_file_result, lines 216-257: the counters first, then the output,
\* unless suppressed.  An exception raised by the output leaves
\* verify_all_workflows and main exits 1 (line 352).
PrintFileResult ==
    /\ pc = "print"
    /\ UpdateStatistics(result)
    /\ IF ~suppress_output /\ JoinRaises(result)
       THEN /\ raised' = TRUE
            /\ Exit(1)
            /\ UNCHANGED idx
       ELSE /\ idx' = idx + 1
            /\ pc' = "loop"
            /\ UNCHANGED <<raised, exit_status>>
    /\ UNCHANGED <<inputs, result, results, total_files, interrupted,
                   fmt_vars, file_vars>>

\* Lines 276-299: sys.exit(1) when a file has errors (SystemExit is no
\* Exception and passes main's handlers), else return and exit 0.
Summary ==
    /\ pc = "summary"
    /\ IF files_with_errors > 0 THEN Exit(1) ELSE Exit(0)
    /\ UNCHANGED <<inputs, idx, result, results, counters, interrupted, raised,
                   fmt_vars, file_vars>>

\* A KeyboardInterrupt that reaches main's handler (lines 349-351).
Interrupt ==
    /\ pc \in {"find", "loop", "verify", "load", "print", "summary"}
    /\ interrupted' = TRUE
    /\ Exit(1)
    /\ UNCHANGED <<inputs, idx, result, results, counters, raised,
                   fmt_vars, file_vars>>

Next ==
    \/ MainStart
    \/ FindWorkflowFiles
    \/ LoopNext
    \/ VerifyStart(FALSE)
    \/ VerifyStart(TRUE)
    \/ VerifyFinish(FALSE)
    \/ VerifyFinish(TRUE)
    \/ PrintFileResult
    \/ Summary
    \/ Interrupt

Spec == Init /\ [][Next]_vars

-----------------------------------------------------------------------------
(* The run against its description.                                        *)

SomeFileErrored == \E k \in 1..Len(results) : ~results[k].is_valid

\* C1: the run ends with exit status 1 exactly when a processed file was
\* classified as an error, the directory does not exist, or an unhandled
\* exception or an interrupt occurred, and with exit status 0 otherwise.
C1_ExitStatus ==
    pc = "exited" =>
        /\ exit_status \in {0, 1}
        /\ (exit_status = 1)
               <=> (SomeFileErrored \/ ~dir_exists \/ raised \/ interrupted)

\* The same statement with the interrupt left out of the conditions for
\* exit status 0: what the run guarantees when no interrupt is delivered.
C1_WithoutInterrupt ==
    (pc = "exited" /\ ~interrupted) =>
        /\ exit_status \in {0, 1}
        /\ (exit_status = 1) <=> (SomeFileErrored \/ ~dir_exists \/ raised)

LoadFails(f) == ~f.readable \/ ~f.yaml_ok

Passed(r) == r.is_valid /\ r.warnings = <<>>

Warned(r) == r.is_valid /\ r.warnings # <<>>

Count(P(_)) == Cardinality({k \in 1..Len(results) : P(results[k])})

Errored(r) == ~r.is_valid

\* C10: whenever print_file_result has returned, total_files is the sum of
\* the three outcome counters, each file having added one to exactly one of
\* them: the counters are the numbers of recorded results of each outcome,
\* with per-file output suppressed or not.
C10_CountersPartition ==
    pc \in {"loop", "summary"} =>
        /\ total_files = files_passed + files_with_warnings + files_with_errors
        /\ total_files = Len(results)
        /\ files_passed = Count(Passed)
        /\ files_with_warnings = Count(Warned)
        /\ files_with_errors = Count(Errored)

C10_Witness ==
    /\ pc = "loop"
    /\ suppress_output
    /\ total_files = 2
    /\ files_with_warnings = 1
    /\ files_with_errors = 1
    /\ \E k \in 1..Len(results) : Len(results[k].warnings) = 2

-----------------------------------------------------------------------------
(* SpecVerify: verify_workflow_file applied to one file, and its result    *)
(* recorded and counted as the loop of verify_all_workflows does.          *)

\* Every permission declaration, in files that are unreadable, not YAML,
\* not a mapping at the root, or a mapping; generated or hand-written.
VerifyFiles ==
    {File(r, text, y, d, Workflow(hp, pv, NoJobs)) :
        r \in BOOLEAN, text \in {PlainHead, GenHead}, y \in BOOLEAN, d \in BOOLEAN,
        hp \in BOOLEAN, pv \in PermissionValues}

InitVerify ==
    /\ file \in VerifyFiles
    /\ gen_out = NotCalled
    /\ root_out = [returned |-> FALSE, value |-> Verdict(FALSE, <<>>, <<>>)]
    /\ verify_out = [returned |-> FALSE, value |-> NewResult(0)]
    /\ IdleFmt
    /\ IdleRun

\* Line 272: result = self.verify_workflow_file(file_path).
CallVerifyWorkflowFile ==
    /\ ~verify_out.returned
    /\ verify_out' = Returned(verify_workflow_file(file, 1))
    /\ UNCHANGED <<file, gen_out, root_out, fmt_vars, run_vars>>

\* Lines 271, 273 and 274 with print_file_result's lines 219-226: the
\* result is appended and one counter is incremented.
RecordResult ==
    /\ verify_out.returned
    /\ total_files = 0
    /\ total_files' = 1
    /\ results' = Append(results, verify_out.value)
    /\ UpdateStatistics(verify_out.value)
    /\ UNCHANGED <<inputs, pc, idx, result, exit_status, interrupted, raised,
                   fmt_vars, file_vars>>

NextVerify == CallVerifyWorkflowFile \/ RecordResult

SpecVerify == InitVerify /\ [][NextVerify]_vars

\* C11: a result of verify_workflow_file has is_valid true exactly when its
\* error list is empty and never holds both errors and warnings; so the
\* file is counted as errored exactly when its result carries an error
\* message, and counted as warned only when it is valid.
C11_ValidIffNoErrors ==
    verify_out.returned =>
        LET r == verify_out.value IN
        /\ r.is_valid <=> (r.errors = <<>>)
        /\ ~(r.errors # <<>> /\ r.warnings # <<>>)
        /\ total_files = 1 =>
              /\ (files_with_errors = 1) <=> (r.errors # <<>>)
              /\ (files_with_warnings = 1) => r.is_valid
              /\ files_passed + files_with_warnings + files_with_errors = 1

C11_Witness ==
    /\ verify_out.returned
    /\ total_files = 1
    /\ ~file.yaml_ok
    /\ file.readable
    /\ verify_out.value.errors # <<>>
    /\ files_with_errors = 1

====
